---- MODULE Spec2Model ----
(***************************************************************************)
(* Habit tracker: the Habit entity, its statistics and the HabitManager    *)
(* collection (src/habit_model.py), the JSON file behind it                *)
(* (src/storage.py) and the application actions that save after each       *)
(* change (src/habit_tracker.py).                                          *)
(*                                                                         *)
(* A datetime.date is modelled by its day ordinal (an integer, so that     *)
(* timedelta(days=1) is +/- 1); an ISO date string "YYYY-MM-DD" is the     *)
(* triple <<year, month, day>>, compared lexicographically as Python       *)
(* compares the fixed-width strings.  Ordinal 0 is 2023-12-30, so that the *)
(* window of days crosses a month and a year boundary.                     *)
(***************************************************************************)
EXTENDS Integers, Sequences, FiniteSets

VARIABLES
    habits,      \* HabitManager.habits: sequence of Habit records
    today,       \* the ordinal date.today() returns
    uuid_count,  \* number of uuid4() values drawn so far
    last,        \* the last call made: its name, arguments and result
    file,        \* the stored form of habits.json
    app,         \* the application: "off", "storage", "running" or "crashed"
    outcome,     \* how the last application step ended: "ok" or the exception
    save_failures  \* failed writes since the last successful one

vars == <<habits, today, uuid_count, last, file, app, outcome, save_failures>>
storage_vars == <<file, app, outcome, save_failures>>

(***************************************************************************)
(* Bounds of the model.                                                    *)
(***************************************************************************)
MaxDay == 5        \* last day ordinal of the single-habit specification
MaxHabits == 2     \* habits held by the manager
MaxUuid == 2       \* uuid4() draws in one behaviour
MaxSaveFailures == 1   \* failed writes in a row

(***************************************************************************)
(* Calendar: datetime.date, date.isoformat, date.fromisoformat.            *)
(***************************************************************************)
EpochDate == <<2023, 12, 29>>   \* the ISO date of ordinal -1

IsLeap(y) == (y % 4 = 0 /\ y % 100 # 0) \/ y % 400 = 0

DaysInMonth(y, m) ==
    IF m = 2 THEN (IF IsLeap(y) THEN 29 ELSE 28)
    ELSE IF m \in {4, 6, 9, 11} THEN 30 ELSE 31

NextDay(dt) ==
    IF dt[3] < DaysInMonth(dt[1], dt[2]) THEN <<dt[1], dt[2], dt[3] + 1>>
    ELSE IF dt[2] < 12 THEN <<dt[1], dt[2] + 1, 1>>
    ELSE <<dt[1] + 1, 1, 1>>

RECURSIVE AddDays(_, _)
AddDays(dt, k) == IF k = 0 THEN dt ELSE AddDays(NextDay(dt), k - 1)

\* date.isoformat(): the string of the date with ordinal d (d >= -1)
IsoFormat(d) == AddDays(EpochDate, d + 1)

RECURSIVE DaysUntil(_, _)
DaysUntil(dt, target) ==
    IF dt = target THEN 0 ELSE 1 + DaysUntil(NextDay(dt), target)

\* date.fromisoformat(s): the ordinal of the date the string s names
FromIsoFormat(s) == DaysUntil(EpochDate, s) - 1

\* Python's str <= on two ISO date strings
StrLeq(a, b) ==
    \/ a[1] < b[1]
    \/ a[1] = b[1] /\ a[2] < b[2]
    \/ a[1] = b[1] /\ a[2] = b[2] /\ a[3] <= b[3]

(***************************************************************************)
(* Lists: list.sort / sorted, list.remove, the `in` operator.              *)
(***************************************************************************)
Range(s) == {s[i] : i \in DOMAIN s}

RECURSIVE InsertStr(_, _)
InsertStr(s, x) ==
    IF s = <<>> THEN <<x>>
    ELSE IF StrLeq(s[Len(s)], x) THEN Append(s, x)
    ELSE Append(InsertStr(SubSeq(s, 1, Len(s) - 1), x), s[Len(s)])

RECURSIVE SortStrings(_)
\* list.sort() on a list of ISO date strings
SortStrings(s) ==
    IF s = <<>> THEN <<>>
    ELSE InsertStr(SortStrings(SubSeq(s, 1, Len(s) - 1)), s[Len(s)])

RECURSIVE InsertDate(_, _)
InsertDate(s, x) ==
    IF s = <<>> THEN <<x>>
    ELSE IF s[Len(s)] <= x THEN Append(s, x)
    ELSE Append(InsertDate(SubSeq(s, 1, Len(s) - 1), x), s[Len(s)])

RECURSIVE SortDates(_)
\* sorted() on a list of datetime.date
SortDates(s) ==
    IF s = <<>> THEN <<>>
    ELSE InsertDate(SortDates(SubSeq(s, 1, Len(s) - 1)), s[Len(s)])

\* list.remove(x): drops the first occurrence of x
RemoveFirst(s, x) ==
    LET i == CHOOSE k \in DOMAIN s : s[k] = x /\ \A j \in 1..(k - 1) : s[j] # x
    IN  SubSeq(s, 1, i - 1) \o SubSeq(s, i + 1, Len(s))

\* list.pop() without the index: drops the last element
RemoveLast(s, i) == SubSeq(s, 1, Len(s) - 1)

\* list.pop(i)
RemoveAt(s, i) == SubSeq(s, 1, i - 1) \o SubSeq(s, i + 1, Len(s))

Max(a, b) == IF a >= b THEN a ELSE b

(***************************************************************************)
(* Habit                                                                   *)
(***************************************************************************)
HabitFields == {"name", "description", "created_date", "completion_dates", "id"}

\* Habit(name, description): the dataclass constructor with its defaults
NewHabit(name, description, t, uuid) ==
    [name |-> name, description |-> description, created_date |-> IsoFormat(t),
     completion_dates |-> <<>>, id |-> uuid]

IsCompletedOnDate(h, check_date) ==
    IsoFormat(check_date) \in Range(h.completion_dates)

IsCompletedToday(h, t) == IsoFormat(t) \in Range(h.completion_dates)

\* mark_completed without the membership test
MarkCompletedOnAlways(h, completion_date) ==
    [h EXCEPT !.completion_dates = SortStrings(Append(@, IsoFormat(completion_date)))]

\* mark_completed: the habit after the call
MarkCompletedOn(h, completion_date) ==
    LET date_str == IsoFormat(completion_date) IN
    IF date_str \notin Range(h.completion_dates)
    THEN [h EXCEPT !.completion_dates = SortStrings(Append(@, date_str))]
    ELSE h

\* unmark_completed: the habit after the call
UnmarkCompletedOn(h, completion_date) ==
    LET date_str == IsoFormat(completion_date) IN
    IF date_str \in Range(h.completion_dates)
    THEN [h EXCEPT !.completion_dates = RemoveFirst(@, date_str)]
    ELSE h

RECURSIVE CountBackwardsFromAnchor(_, _, _)
\* the backward walk testing the anchor day again instead of the day before
CountBackwardsFromAnchor(h, current_date, streak) ==
    IF IsCompletedOnDate(h, current_date)
    THEN CountBackwardsFromAnchor(h, current_date - 1, streak + 1)
    ELSE streak

RECURSIVE CountBackwards(_, _, _)
\* the `while True` loop of get_current_streak
CountBackwards(h, current_date, streak) ==
    LET prev == current_date - 1 IN
    IF IsCompletedOnDate(h, prev) THEN CountBackwards(h, prev, streak + 1)
    ELSE streak

\* get_current_streak without the day of grace
GetCurrentStreakStrict(h, t) ==
    IF ~IsCompletedOnDate(h, t) THEN 0 ELSE CountBackwards(h, t, 1)

GetCurrentStreak(h, t) ==
    IF h.completion_dates = <<>> THEN 0
    ELSE IF ~IsCompletedOnDate(h, t)
         THEN IF ~IsCompletedOnDate(h, t - 1) THEN 0
              ELSE CountBackwards(h, t - 1, 1)
         ELSE CountBackwards(h, t, 1)

RECURSIVE LongestScan(_, _, _, _)
\* the `for i in range(1, len(sorted_dates))` loop of get_longest_streak
LongestScan(sorted_dates, i, current_streak, max_streak) ==
    IF i > Len(sorted_dates) THEN max_streak
    ELSE IF sorted_dates[i] - sorted_dates[i - 1] = 1
         THEN LongestScan(sorted_dates, i + 1, current_streak + 1,
                          Max(max_streak, current_streak + 1))
         ELSE LongestScan(sorted_dates, i + 1, 1, max_streak)

ParsedDates(h) ==
    [i \in DOMAIN h.completion_dates |-> FromIsoFormat(h.completion_dates[i])]

\* get_longest_streak scanning the list as stored, without sorted()
GetLongestStreakUnsorted(h) ==
    IF h.completion_dates = <<>> THEN 0
    ELSE LongestScan(ParsedDates(h), 2, 1, 1)

GetLongestStreak(h) ==
    IF h.completion_dates = <<>> THEN 0
    ELSE LongestScan(SortDates(ParsedDates(h)), 2, 1, 1)

GetTotalCompletions(h) == Len(h.completion_dates)

\* a float, kept exact as a fraction num / den (den # 0)
RatDiv(a, b) == [num |-> a, den |-> b]
RatMul(r, k) == [num |-> r.num * k, den |-> r.den]
RatEq(r, q) == r.num * q.den = q.num * r.den
\* r <= q, whatever the signs of the denominators
RatLeq(r, q) ==
    IF (r.den > 0) = (q.den > 0) THEN r.num * q.den <= q.num * r.den
    ELSE r.num * q.den >= q.num * r.den
RatInt(k) == [num |-> k, den |-> 1]

\* (date.today() - created).days + 1
DaysSinceCreation(h, t) == (t - FromIsoFormat(h.created_date)) + 1

\* get_completion_rate counting the days exclusively
GetCompletionRateExclusive(h, t) ==
    LET days_since_creation == t - FromIsoFormat(h.created_date) IN
    IF days_since_creation = 0 THEN RatInt(0)
    ELSE RatMul(RatDiv(GetTotalCompletions(h), days_since_creation), 100)

GetCompletionRate(h, t) ==
    LET days_since_creation == DaysSinceCreation(h, t) IN
    IF days_since_creation = 0 THEN RatInt(0)
    ELSE RatMul(RatDiv(GetTotalCompletions(h), days_since_creation), 100)

\* Habit.to_dict: dataclasses.asdict
HabitToDict(h) == [f \in HabitFields |-> h[f]]

\* Habit(**data) raises TypeError on an unknown keyword or a missing name
HabitDataOk(data) == DOMAIN data \subseteq HabitFields /\ "name" \in DOMAIN data

\* Habit.from_dict losing the stored completion dates
HabitFromDictNoDates(data, t, uuid) ==
    [name |-> data.name,
     description |-> IF "description" \in DOMAIN data THEN data.description ELSE "",
     created_date |-> IF "created_date" \in DOMAIN data THEN data.created_date
                      ELSE IsoFormat(t),
     completion_dates |-> <<>>,
     id |-> IF "id" \in DOMAIN data THEN data.id ELSE uuid]

\* Habit.from_dict: Habit(**data), the defaults filling the absent fields
HabitFromDict(data, t, uuid) ==
    [name |-> data.name,
     description |-> IF "description" \in DOMAIN data THEN data.description ELSE "",
     created_date |-> IF "created_date" \in DOMAIN data THEN data.created_date
                      ELSE IsoFormat(t),
     completion_dates |-> IF "completion_dates" \in DOMAIN data
                          THEN data.completion_dates ELSE <<>>,
     id |-> IF "id" \in DOMAIN data THEN data.id ELSE uuid]

\* the n-th value uuid4() returns: never one returned before
Uuid4(n) == n + 1

(***************************************************************************)
(* HabitManager                                                            *)
(***************************************************************************)
None == "None"   \* Python's None, where a str is optional

\* get_habit: the position of the first habit with that id, 0 for None
GetHabit(hs, habit_id) ==
    IF \E i \in DOMAIN hs : hs[i].id = habit_id
    THEN CHOOSE i \in DOMAIN hs :
            hs[i].id = habit_id /\ \A j \in 1..(i - 1) : hs[j].id # habit_id
    ELSE 0

\* HabitManager.to_dict
ToDict(hs, t) ==
    [habits |-> [i \in DOMAIN hs |-> HabitToDict(hs[i])],
     metadata |-> [last_updated |-> IsoFormat(t), total_habits |-> Len(hs)]]

RECURSIVE FromDictLoop(_, _, _, _)
\* the loop of HabitManager.from_dict over data["habits"]: the habits appended
\* so far, the uuid4() draws made, and whether Habit.from_dict raised
FromDictLoop(entries, acc, n, t) ==
    IF entries = <<>> THEN [habits |-> acc, uuid_count |-> n, raised |-> FALSE]
    ELSE LET habit_data == Head(entries) IN
         IF ~HabitDataOk(habit_data)
         THEN [habits |-> acc, uuid_count |-> n, raised |-> TRUE]
         ELSE FromDictLoop(Tail(entries),
                           Append(acc, HabitFromDict(habit_data, t, Uuid4(n))),
                           IF "id" \in DOMAIN habit_data THEN n ELSE n + 1, t)

\* HabitManager.from_dict: self.habits = [] and then the loop
FromDictResult(data, n, t) ==
    IF "habits" \in DOMAIN data THEN FromDictLoop(data.habits, <<>>, n, t)
    ELSE [habits |-> <<>>, uuid_count |-> n, raised |-> FALSE]

(***************************************************************************)
(* Inputs                                                                  *)
(***************************************************************************)
Names == {"Read", "Run"}
Descriptions == {"", "10 pages"}
D0 == IsoFormat(0)
D1 == IsoFormat(1)
D2 == IsoFormat(2)
D3 == IsoFormat(3)

\* habit entries a stored snapshot may carry: well-formed ones (dates in
\* order, out of order, repeated), one holding a name only, and two that
\* Habit(**data) rejects (no name; an unknown field)
EntryA == [name |-> "Read", description |-> "", created_date |-> D0,
           completion_dates |-> <<D0, D1>>, id |-> 101]
EntryB == [name |-> "Run", description |-> "10 pages", created_date |-> D0,
           completion_dates |-> <<D1, D0>>, id |-> 102]
EntryC == [name |-> "Run", description |-> "", created_date |-> D1,
           completion_dates |-> <<D0, D1, D1>>, id |-> 101]
EntryNameOnly == [name |-> "Read"]
EntryNoName == [description |-> "no name", id |-> 101]
EntryUnknownField == [name |-> "Read", id |-> 102, color |-> "red"]

SnapHabitLists ==
    {<<>>, <<EntryA>>, <<EntryC>>, <<EntryNameOnly>>, <<EntryNoName>>,
     <<EntryA, EntryB>>, <<EntryB, EntryA>>, <<EntryA, EntryC>>,
     <<EntryA, EntryNoName>>, <<EntryB, EntryUnknownField>>,
     <<EntryUnknownField, EntryA>>}

Snapshots ==
    {[metadata |-> [total_habits |-> 0]]}
    \cup {[habits |-> hl, metadata |-> [total_habits |-> Len(hl)]] :
            hl \in SnapHabitLists}

\* ids a caller may pass: those of the collection and one unknown
KnownIds == {habits[i].id : i \in DOMAIN habits}
CallIds == KnownIds \cup {0}

(***************************************************************************)
(* Actions                                                                 *)
(***************************************************************************)
\* no file behind the manager and no application around it
NoStorage ==
    /\ file = [kind |-> "missing"]
    /\ app = "off"
    /\ outcome = None
    /\ save_failures = 0

Init ==
    /\ habits = <<>>
    /\ today = 1
    /\ uuid_count = 0
    /\ last = [op |-> "init"]
    /\ NoStorage

\* add_habit inserting the new habit at the front
AddHabitPrepend(name, description) ==
    LET habit == NewHabit(name, description, today, Uuid4(uuid_count)) IN
    /\ Len(habits) < MaxHabits
    /\ uuid_count < MaxUuid
    /\ habits' = <<habit>> \o habits
    /\ uuid_count' = uuid_count + 1
    /\ last' = [op |-> "add_habit", ret |-> habit]
    /\ UNCHANGED today

AddHabit(name, description) ==
    LET habit == NewHabit(name, description, today, Uuid4(uuid_count)) IN
    /\ Len(habits) < MaxHabits
    /\ uuid_count < MaxUuid
    /\ habits' = Append(habits, habit)
    /\ uuid_count' = uuid_count + 1
    /\ last' = [op |-> "add_habit", ret |-> habit]
    /\ UNCHANGED today

RemoveHabit(habit_id) ==
    LET i == GetHabit(habits, habit_id) IN
    /\ habits' = IF i # 0 THEN RemoveAt(habits, i) ELSE habits
    /\ last' = [op |-> "remove_habit", ret |-> (i # 0)]
    /\ UNCHANGED <<today, uuid_count>>

\* update_habit assigning both fields whether provided or not
UpdateHabitOverwrite(habit_id, name, description) ==
    LET i == GetHabit(habits, habit_id) IN
    /\ habits' = IF i = 0 THEN habits
                 ELSE [habits EXCEPT ![i].name = name,
                                     ![i].description = description]
    /\ last' = [op |-> "update_habit", ret |-> (i # 0)]
    /\ UNCHANGED <<today, uuid_count>>

UpdateHabit(habit_id, name, description) ==
    LET i == GetHabit(habits, habit_id) IN
    /\ habits' = IF i = 0 THEN habits
                 ELSE [habits EXCEPT
                         ![i].name = IF name # None THEN name ELSE @,
                         ![i].description =
                             IF description # None THEN description ELSE @]
    /\ last' = [op |-> "update_habit", ret |-> (i # 0)]
    /\ UNCHANGED <<today, uuid_count>>

FromDict(data) ==
    LET r == FromDictResult(data, uuid_count, today) IN
    /\ r.uuid_count <= MaxUuid
    /\ habits' = r.habits
    /\ uuid_count' = r.uuid_count
    /\ last' = [op |-> "from_dict", data |-> data,
                ret |-> IF r.raised THEN "TypeError" ELSE None]
    /\ UNCHANGED today

\* mark_completed on habits that share one completion_dates list
MarkCompletedShared(i, d) ==
    /\ habits' = [j \in DOMAIN habits |-> MarkCompletedOn(habits[j], d)]
    /\ last' = [op |-> "mark_completed", idx |-> i, d |-> d]
    /\ UNCHANGED <<today, uuid_count>>

MarkCompleted(i, d) ==
    /\ habits' = [habits EXCEPT ![i] = MarkCompletedOn(@, d)]
    /\ last' = [op |-> "mark_completed", idx |-> i, d |-> d]
    /\ UNCHANGED <<today, uuid_count>>

UnmarkCompleted(i, d) ==
    /\ habits' = [habits EXCEPT ![i] = UnmarkCompletedOn(@, d)]
    /\ last' = [op |-> "unmark_completed", idx |-> i, d |-> d]
    /\ UNCHANGED <<today, uuid_count>>

\* midnight passes: date.today() returns the next day; last.run counts the
\* midnights passed since the last call
AdvanceDay ==
    /\ today < MaxDay
    /\ today' = today + 1
    /\ last' = [op |-> "advance_day",
                run |-> IF last.op = "advance_day" THEN last.run + 1 ELSE 1]
    /\ UNCHANGED <<habits, uuid_count>>
    /\ UNCHANGED storage_vars

\* the manager driven directly: the file and the application stay as they are
Add ==
    /\ \E name \in Names, description \in Descriptions : AddHabit(name, description)
    /\ UNCHANGED storage_vars
Remove ==
    /\ \E habit_id \in CallIds : RemoveHabit(habit_id)
    /\ UNCHANGED storage_vars
Update ==
    /\ \E habit_id \in CallIds, name \in Names \cup {None},
          description \in Descriptions \cup {None} :
           UpdateHabit(habit_id, name, description)
    /\ UNCHANGED storage_vars
Load ==
    /\ \E data \in Snapshots : FromDict(data)
    /\ UNCHANGED storage_vars
\* completion_date is None: the check-in of date.today(), as the application
\* toggles it
Mark ==
    /\ \E i \in DOMAIN habits : MarkCompleted(i, today)
    /\ UNCHANGED storage_vars
Unmark ==
    /\ \E i \in DOMAIN habits : UnmarkCompleted(i, today)
    /\ UNCHANGED storage_vars

Next == Add \/ Remove \/ Update \/ Load \/ Mark \/ Unmark

Spec == Init /\ [][Next]_vars

(***************************************************************************)
(* One Habit on its own, as test_logic.py drives it: constructed or        *)
(* hydrated, then marked and unmarked on any day of the window while the   *)
(* calendar advances.                                                      *)
(***************************************************************************)
HabitDateLists == {<<D3, D1, D2>>, <<D1, D2, D2, D3>>, <<D2, D0>>}

HabitEntries ==
    {[name |-> "Test Habit", completion_dates |-> cd, id |-> 101] :
        cd \in HabitDateLists}

\* an entry whose created_date lies two days after the first today
HabitFutureEntry ==
    [name |-> "Test Habit", created_date |-> D2, completion_dates |-> <<D0>>,
     id |-> 102]

HabitInit ==
    /\ today = 0
    /\ uuid_count = 1
    /\ \/ habits = <<NewHabit("Test Habit", "", 0, Uuid4(0))>>
       \/ \E e \in HabitEntries \cup {HabitFutureEntry} :
              habits = <<HabitFromDict(e, 0, Uuid4(0))>>
    /\ last = [op |-> "init"]
    /\ NoStorage

HabitMark ==
    /\ \E d \in 0..MaxDay : MarkCompleted(1, d)
    /\ UNCHANGED storage_vars
HabitUnmark ==
    /\ \E d \in 0..MaxDay : UnmarkCompleted(1, d)
    /\ UNCHANGED storage_vars
HabitNext == HabitMark \/ HabitUnmark \/ AdvanceDay

HabitSpec == HabitInit /\ [][HabitNext]_vars

(***************************************************************************)
(* The application over its JSON file (src/storage.py,                     *)
(* src/habit_tracker.py).  The stored form is missing, unreadable (open or *)
(* decoding its bytes raises), not valid JSON, or a JSON object.           *)
(***************************************************************************)
MissingFile == [kind |-> "missing"]
UnreadableFile == [kind |-> "unreadable"]
InvalidJsonFile == [kind |-> "invalid_json"]
JsonFile(data) == [kind |-> "json", data |-> data]

\* the structure load_data falls back to and _ensure_file_exists writes
DefaultData(t) == [habits |-> <<>>, metadata |-> [created |-> IsoFormat(t)]]

\* load_data: only JSONDecodeError and FileNotFoundError are caught
LoadData(f, t) ==
    CASE f.kind = "json" -> [raised |-> None, data |-> f.data]
      [] f.kind \in {"missing", "invalid_json"} ->
            [raised |-> None, data |-> DefaultData(t)]
      [] f.kind = "unreadable" -> [raised |-> "OSError", data |-> DefaultData(t)]

\* save_data printing the error and returning normally
SaveDataSwallow(f, data, fails) ==
    IF fails THEN [raised |-> None, files |-> {f, InvalidJsonFile}]
    ELSE [raised |-> None, files |-> {JsonFile(data)}]

\* save_data: the exception it re-raises, and the forms the file may be left
\* in (a failed write leaves it as it was, or truncated by open(..., 'w'))
SaveData(f, data, fails) ==
    IF fails THEN [raised |-> "OSError", files |-> {f, InvalidJsonFile}]
    ELSE [raised |-> None, files |-> {JsonFile(data)}]

\* the habits.json shipped with the program, when there is one
BundledFiles == {MissingFile, JsonFile(DefaultData(0))}

\* snapshots the application may find stored: no habits key, no habit, one
\* habit, two habits under one id, and two that Habit(**data) rejects
StoredHabitLists ==
    {<<>>, <<EntryA>>, <<EntryA, EntryC>>, <<EntryA, EntryNoName>>,
     <<EntryUnknownField, EntryA>>}

StoredSnapshots ==
    {data \in Snapshots :
        "habits" \in DOMAIN data => data.habits \in StoredHabitLists}

\* stored forms the application may find when it starts
StoredForms ==
    {MissingFile, UnreadableFile, InvalidJsonFile}
    \cup {JsonFile(data) : data \in StoredSnapshots}

\* what the habit dialog hands to its callback: a non-empty name and a
\* description
DialogNames == {"Run"}
DialogDescriptions == Descriptions

AppInit ==
    /\ habits = <<>>
    /\ today = 1
    /\ uuid_count = 0
    /\ last = [op |-> "init"]
    /\ file \in StoredForms
    /\ app = "off"
    /\ outcome = None
    /\ save_failures = 0

\* HabitStorage(): _ensure_file_exists copies the bundled file or saves the
\* default structure when the file does not exist
NewStorage(bundled, fails) ==
    /\ app = "off"
    /\ IF file.kind # "missing"
       THEN file' = file /\ outcome' = "ok"
       ELSE IF bundled.kind # "missing"
       THEN file' = bundled /\ outcome' = "ok"
       ELSE LET r == SaveData(file, DefaultData(today), fails) IN
            /\ file' \in r.files
            /\ outcome' = IF r.raised = None THEN "ok" ELSE r.raised
    /\ app' = IF outcome' = "ok" THEN "storage" ELSE "crashed"
    /\ last' = [op |-> "HabitStorage"]
    /\ UNCHANGED <<habits, today, uuid_count, save_failures>>

\* another process removes the file after the storage was constructed
FileRemoved ==
    /\ app = "storage"
    /\ file.kind # "missing"
    /\ file' = MissingFile
    /\ UNCHANGED <<habits, today, uuid_count, last, app, outcome, save_failures>>

\* _load_data at the end of start-up: load_data, then HabitManager.from_dict
LoadStored ==
    /\ app = "storage"
    /\ LET r == LoadData(file, today) IN
       IF r.raised # None
       THEN /\ outcome' = r.raised
            /\ last' = [op |-> "load_data"]
            /\ UNCHANGED <<habits, today, uuid_count>>
       ELSE /\ FromDict(r.data)
            /\ outcome' = IF last'.ret = None THEN "ok" ELSE last'.ret
    /\ app' = IF outcome' = "ok" THEN "running" ELSE "crashed"
    /\ UNCHANGED <<file, save_failures>>

\* _save_and_refresh on the collection hs the action has produced
SaveAndRefresh(hs, fails) ==
    LET r == SaveData(file, ToDict(hs, today), fails) IN
    /\ fails => save_failures < MaxSaveFailures
    /\ file' \in r.files
    /\ outcome' = IF r.raised = None THEN "ok" ELSE r.raised
    /\ save_failures' = IF fails THEN save_failures + 1 ELSE 0
    /\ UNCHANGED app

SaveNewHabit(name, desc, fails) ==
    /\ app = "running"
    /\ AddHabit(name, desc)
    /\ SaveAndRefresh(habits', fails)

SaveEditHabit(selected_habit_id, name, desc, fails) ==
    /\ app = "running"
    /\ UpdateHabit(selected_habit_id, name, desc)
    /\ SaveAndRefresh(habits', fails)

DeleteHabit(selected_habit_id, fails) ==
    /\ app = "running"
    /\ GetHabit(habits, selected_habit_id) # 0
    /\ RemoveHabit(selected_habit_id)
    /\ SaveAndRefresh(habits', fails)

\* _toggle_today_completion returning without _save_and_refresh
ToggleTodayCompletionUnsaved(selected_habit_id, fails) ==
    LET i == GetHabit(habits, selected_habit_id) IN
    /\ app = "running"
    /\ i # 0
    /\ IF IsCompletedToday(habits[i], today)
       THEN UnmarkCompleted(i, today)
       ELSE MarkCompleted(i, today)
    /\ outcome' = "ok"
    /\ UNCHANGED <<file, app, save_failures>>

ToggleTodayCompletion(selected_habit_id, fails) ==
    LET i == GetHabit(habits, selected_habit_id) IN
    /\ app = "running"
    /\ i # 0
    /\ IF IsCompletedToday(habits[i], today)
       THEN UnmarkCompleted(i, today)
       ELSE MarkCompleted(i, today)
    /\ SaveAndRefresh(habits', fails)

Construct == \E bundled \in BundledFiles, fails \in BOOLEAN : NewStorage(bundled, fails)
SaveNew ==
    \E name \in DialogNames, desc \in DialogDescriptions, fails \in BOOLEAN :
        SaveNewHabit(name, desc, fails)
SaveEdit ==
    \E selected_habit_id \in KnownIds, name \in DialogNames,
       desc \in DialogDescriptions, fails \in BOOLEAN :
        SaveEditHabit(selected_habit_id, name, desc, fails)
Delete ==
    \E selected_habit_id \in KnownIds, fails \in BOOLEAN :
        DeleteHabit(selected_habit_id, fails)
Toggle ==
    \E selected_habit_id \in KnownIds, fails \in BOOLEAN :
        ToggleTodayCompletion(selected_habit_id, fails)

AppNext ==
    Construct \/ FileRemoved \/ LoadStored \/ SaveNew \/ SaveEdit \/ Delete \/ Toggle

AppSpec == AppInit /\ [][AppNext]_vars

(***************************************************************************)
(* Properties                                                              *)
(***************************************************************************)
\* the days on which a habit is completed, as dates
CompletedDays(h) == {FromIsoFormat(s) : s \in Range(h.completion_dates)}

\* the length of the run of consecutive days of S that ends at day t
RunEndingAt(S, t) ==
    CHOOSE k \in 0..Cardinality(S) :
        /\ \A j \in 0..(k - 1) : (t - j) \in S
        /\ (t - k) \notin S

\* the length of the longest run of consecutive days of S
LongestRun(S) ==
    IF S = {} THEN 0
    ELSE CHOOSE k \in 1..Cardinality(S) :
            /\ \E t \in S : RunEndingAt(S, t) = k
            /\ \A t \in S : RunEndingAt(S, t) <= k

NoDuplicates(s) == \A i, j \in DOMAIN s : i # j => s[i] # s[j]

NoCompletionAfter(h, t) == \A d \in CompletedDays(h) : d <= t

\* C1: loading the serialized snapshot of the manager into a fresh manager
\* (whatever the day of the load and the uuids it has drawn) raises nothing
\* and yields the same habits in the same order, each with the same id, name,
\* description, created_date and completion dates; a habit completed today
\* before saving is completed today after loading.
RoundTrip ==
    \A t \in 0..MaxDay, n \in 0..MaxUuid :
        LET r == FromDictResult(ToDict(habits, today), n, t) IN
        /\ ~r.raised
        /\ r.habits = habits
        /\ \A i \in DOMAIN habits :
              IsCompletedToday(habits[i], today) => IsCompletedToday(r.habits[i], today)

\* C1 witness: two habits, the last call marked one of them completed today,
\* and the reloaded copy of it is completed today.
RoundTripWitness ==
    /\ Len(habits) = 2
    /\ last.op = "mark_completed"
    /\ habits[1].id # habits[2].id
    /\ habits[1].name # habits[2].name
    /\ LET r == FromDictResult(ToDict(habits, today), 0, today) IN
           /\ Len(r.habits) = 2
           /\ IsCompletedToday(r.habits[last.idx], today)

\* C2: get_current_streak() is the length of the run of completed days ending
\* at today if today is completed, else of the run ending at yesterday if
\* yesterday is completed, else 0.
CurrentStreakIsRun ==
    \A i \in DOMAIN habits :
        LET S == CompletedDays(habits[i]) IN
        GetCurrentStreak(habits[i], today) =
            IF today \in S THEN RunEndingAt(S, today)
            ELSE IF (today - 1) \in S THEN RunEndingAt(S, today - 1)
            ELSE 0

\* C2 witness: completions on today, yesterday and three days ago, the last of
\* them just marked, give a current streak of 2.
CurrentStreakWitness ==
    /\ last.op = "mark_completed"
    /\ today >= 3
    /\ CompletedDays(habits[1]) = {today, today - 1, today - 3}
    /\ GetCurrentStreak(habits[1], today) = 2

\* C3: for every completion set (a completion_dates list that holds each date
\* once, in any order) get_longest_streak() is the length of the longest run
\* of consecutive days in the set, and 0 for the empty set.
LongestStreakIsLongestRun ==
    \A i \in DOMAIN habits :
        NoDuplicates(habits[i].completion_dates) =>
            GetLongestStreak(habits[i]) = LongestRun(CompletedDays(habits[i]))

\* C3 witness: a habit hydrated with its dates out of order, then marked on a
\* fifth day: five consecutive days give 5.
LongestStreakWitness ==
    /\ last.op = "mark_completed"
    /\ habits[1].id = 101
    /\ NoDuplicates(habits[1].completion_dates)
    /\ CompletedDays(habits[1]) = 0..4
    /\ GetLongestStreak(habits[1]) = 5

\* C4: when midnight passes with today completed, no completion after today
\* and a streak of n >= 1, the streak is still n; when midnight passes a
\* second time with no call in between, the streak is 0.
GracePeriod ==
    [][last'.op = "advance_day" =>
        \A i \in DOMAIN habits :
            /\ (IsCompletedOnDate(habits[i], today) /\ NoCompletionAfter(habits[i], today))
                  => /\ GetCurrentStreak(habits[i], today) >= 1
                     /\ GetCurrentStreak(habits'[i], today') =
                            GetCurrentStreak(habits[i], today)
            /\ (/\ last.op = "advance_day"
                /\ IsCompletedOnDate(habits[i], today - 1)
                /\ NoCompletionAfter(habits[i], today - 1))
                  => GetCurrentStreak(habits'[i], today') = 0]_vars

\* C4 witness: two midnights have passed since the last call, the streak of 2
\* that ended two days ago now reads 0.
GracePeriodWitness ==
    /\ last.op = "advance_day"
    /\ last.run = 2
    /\ CompletedDays(habits[1]) = {today - 3, today - 2}
    /\ GetCurrentStreak(habits[1], today - 2) = 2
    /\ GetCurrentStreak(habits[1], today - 1) = 2
    /\ GetCurrentStreak(habits[1], today) = 0

\* C5: after mark_completed(d) the habit is completed on d, and a second
\* mark_completed(d) leaves the habit exactly as the first left it.
MarkCompletedIdempotent ==
    last.op = "mark_completed" =>
        /\ IsCompletedOnDate(habits[last.idx], last.d)
        /\ MarkCompletedOn(habits[last.idx], last.d) = habits[last.idx]

\* C5 witness: the last call marked a day, other than today, that was not in
\* the list before: the list now holds three dates, that day among them.
MarkCompletedWitness ==
    /\ last.op = "mark_completed"
    /\ last.d # today
    /\ Len(habits[1].completion_dates) = 3
    /\ NoDuplicates(habits[1].completion_dates)
    /\ IsCompletedOnDate(habits[1], last.d)

IsSortedStr(s) == \A i \in 1..(Len(s) - 1) : StrLeq(s[i], s[i + 1])

\* C6: after unmark_completed(d) the habit is not completed on d, and a second
\* unmark_completed(d) leaves the habit exactly as the first left it.
UnmarkCompletedIdempotent ==
    last.op = "unmark_completed" =>
        /\ ~IsCompletedOnDate(habits[last.idx], last.d)
        /\ UnmarkCompletedOn(habits[last.idx], last.d) = habits[last.idx]

\* C7: completion_dates holds no date twice, so get_total_completions() is the
\* number of distinct completed dates.
NoDuplicateDates ==
    \A i \in DOMAIN habits :
        /\ NoDuplicates(habits[i].completion_dates)
        /\ GetTotalCompletions(habits[i]) = Cardinality(CompletedDays(habits[i]))

\* C8: after every mark_completed(d), d new or already present, the habit's
\* completion_dates list is in ascending order.
SortedAfterMark ==
    last.op = "mark_completed" => IsSortedStr(habits[last.idx].completion_dates)

\* C9: no two habits of the manager have the same id.
UniqueIds ==
    \A i, j \in DOMAIN habits : i # j => habits[i].id # habits[j].id

\* C10: from_dict(snapshot) leaves the manager with every habit of the
\* snapshot, in snapshot order, when every entry is accepted, and with the
\* collection it had before the call when an entry is rejected.
FromDictAtomic ==
    [][last'.op = "from_dict" =>
        LET entries == IF "habits" \in DOMAIN last'.data THEN last'.data.habits
                       ELSE <<>>
        IN  IF \A k \in DOMAIN entries : HabitDataOk(entries[k])
            THEN /\ Len(habits') = Len(entries)
                 /\ \A k \in DOMAIN entries : habits'[k].name = entries[k].name
            ELSE habits' = habits]_vars

\* C11: for a habit created on or before today, get_completion_rate() is
\* total_completions * 100 / ((today - created_date) in days + 1).
CompletionRateFormula ==
    \A i \in DOMAIN habits :
        LET created == FromIsoFormat(habits[i].created_date) IN
        created <= today =>
            RatEq(GetCompletionRate(habits[i], today),
                  RatDiv(Len(habits[i].completion_dates) * 100, (today - created) + 1))

\* C11 witness: created five days ago (six days inclusive), three completions,
\* the last just marked: the rate is 50.
CompletionRateWitness ==
    /\ last.op = "mark_completed"
    /\ habits[1].created_date = D0
    /\ today = 5
    /\ Len(habits[1].completion_dates) = 3
    /\ RatEq(GetCompletionRate(habits[1], today), RatInt(50))

\* C12: for a habit whose created_date is after today, get_completion_rate()
\* is 0.
FutureCreationRateZero ==
    \A i \in DOMAIN habits :
        FromIsoFormat(habits[i].created_date) > today =>
            RatEq(GetCompletionRate(habits[i], today), RatInt(0))

\* C13: for a habit constructed by Habit(name) (its id drawn by uuid4(), its
\* created_date the day of construction) and then marked and unmarked on any
\* dates, get_completion_rate() is between 0 and 100 inclusive.
CompletionRateInRange ==
    \A i \in DOMAIN habits :
        habits[i].id \in {Uuid4(n) : n \in 0..MaxUuid} =>
            /\ RatLeq(RatInt(0), GetCompletionRate(habits[i], today))
            /\ RatLeq(GetCompletionRate(habits[i], today), RatInt(100))

\* C20: get_current_streak() <= get_longest_streak() in every state and for
\* every today.
CurrentAtMostLongest ==
    \A i \in DOMAIN habits :
        GetCurrentStreak(habits[i], today) <= GetLongestStreak(habits[i])

\* the habit with that id is in the collection
Present(habit_id) == \E i \in DOMAIN habits : habits[i].id = habit_id

\* position i holds the first habit with that id
FirstWithId(i, habit_id) ==
    /\ i \in DOMAIN habits
    /\ habits[i].id = habit_id
    /\ \A j \in 1..(i - 1) : habits[j].id # habit_id

\* C14: remove_habit(id) returns true exactly when a habit with that id is in
\* the collection; the collection is then the previous one without that habit,
\* the others unchanged and in the same order; for an unknown id it returns
\* false and the collection is unchanged.
RemoveHabitContract ==
    [][\A habit_id \in CallIds :
        RemoveHabit(habit_id) =>
            /\ last'.ret = Present(habit_id)
            /\ Present(habit_id) =>
                 \E i \in DOMAIN habits :
                    /\ FirstWithId(i, habit_id)
                    /\ Len(habits') = Len(habits) - 1
                    /\ \A k \in 1..(i - 1) : habits'[k] = habits[k]
                    /\ \A k \in i..(Len(habits) - 1) : habits'[k] = habits[k + 1]
            /\ ~Present(habit_id) => habits' = habits]_vars

\* C14 witness: a remove_habit call returned true and left one habit, the one
\* added second.
RemoveHabitWitness ==
    /\ last.op = "remove_habit"
    /\ last.ret = TRUE
    /\ Len(habits) = 1
    /\ habits[1].id = Uuid4(1)

\* C15: update_habit(id, name, description) returns true exactly when a habit
\* with that id exists; it sets the provided fields of that habit and leaves
\* its other fields, its position and every other habit unchanged; for an
\* unknown id it returns false and changes nothing.
UpdateHabitFrame ==
    [][\A habit_id \in CallIds, name \in Names \cup {None},
          description \in Descriptions \cup {None} :
        UpdateHabit(habit_id, name, description) =>
            /\ last'.ret = Present(habit_id)
            /\ Len(habits') = Len(habits)
            /\ ~Present(habit_id) => habits' = habits
            /\ \A i \in DOMAIN habits :
                 IF FirstWithId(i, habit_id)
                 THEN /\ habits'[i].name =
                            (IF name = None THEN habits[i].name ELSE name)
                      /\ habits'[i].description =
                            (IF description = None THEN habits[i].description
                             ELSE description)
                      /\ habits'[i].id = habits[i].id
                      /\ habits'[i].created_date = habits[i].created_date
                      /\ habits'[i].completion_dates = habits[i].completion_dates
                 ELSE habits'[i] = habits[i]]_vars

\* C15 witness: an update_habit call returned true on a collection of two
\* habits, the second now named "Run" with description "10 pages" and still
\* completed today, the first untouched.
UpdateHabitWitness ==
    /\ last.op = "update_habit"
    /\ last.ret = TRUE
    /\ Len(habits) = 2
    /\ habits[1].name = "Read" /\ habits[1].description = ""
    /\ habits[2].name = "Run" /\ habits[2].description = "10 pages"
    /\ habits[2].id = Uuid4(1)
    /\ IsCompletedToday(habits[2], today)

\* C16: add_habit(name, description) appends one habit at the end and leaves
\* the existing habits and their order unchanged; the new habit has the given
\* name and description, created_date today, no completion, an id no habit of
\* the collection has, and is the value returned.
AddHabitAppends ==
    [][\A name \in Names, description \in Descriptions :
        AddHabit(name, description) =>
            /\ Len(habits') = Len(habits) + 1
            /\ SubSeq(habits', 1, Len(habits)) = habits
            /\ LET h == habits'[Len(habits) + 1] IN
                 /\ h.name = name
                 /\ h.description = description
                 /\ FromIsoFormat(h.created_date) = today
                 /\ h.completion_dates = <<>>
                 /\ \A i \in DOMAIN habits : habits[i].id # h.id
                 /\ last'.ret = h]_vars

\* C16 witness: add_habit has just appended a second habit after one hydrated
\* from a snapshot.
AddHabitWitness ==
    /\ last.op = "add_habit"
    /\ Len(habits) = 2
    /\ habits[1].id = 101
    /\ habits[1].completion_dates # <<>>
    /\ last.ret = habits[2]

\* C19: mark_completed and unmark_completed on one habit leave its id, name,
\* description and created_date, every other habit and the order of the
\* sequence unchanged.
MarkUnmarkFrame ==
    [][last'.op \in {"mark_completed", "unmark_completed"} =>
        /\ Len(habits') = Len(habits)
        /\ \A j \in DOMAIN habits :
             IF j = last'.idx
             THEN /\ habits'[j].id = habits[j].id
                  /\ habits'[j].name = habits[j].name
                  /\ habits'[j].description = habits[j].description
                  /\ habits'[j].created_date = habits[j].created_date
             ELSE habits'[j] = habits[j]]_vars

\* C19 witness: the second of two habits has just been marked completed today
\* and the first is not completed today.
MarkUnmarkWitness ==
    /\ last.op = "mark_completed"
    /\ last.idx = 2
    /\ Len(habits) = 2
    /\ IsCompletedToday(habits[2], today)
    /\ ~IsCompletedToday(habits[1], today)

\* a stored form that is not a well-formed snapshot: missing, unreadable, not
\* valid JSON, or holding a habit entry that lacks its name or carries an
\* unknown field
BadStoredForm(f) ==
    \/ f.kind \in {"missing", "unreadable", "invalid_json"}
    \/ /\ f.kind = "json"
       /\ "habits" \in DOMAIN f.data
       /\ \E k \in DOMAIN f.data.habits : ~HabitDataOk(f.data.habits[k])

\* C17: when the stored snapshot is missing, unreadable, not valid JSON or not
\* a well-formed snapshot, load_data followed by HabitManager.from_dict
\* completes without raising and leaves the manager with an empty collection.
LoadNeverEscalates ==
    [][(LoadStored /\ BadStoredForm(file)) =>
          (outcome' = "ok" /\ habits' = <<>>)]_vars

\* C18: when the write of the snapshot fails, each saving action of the
\* application (new habit, edit, delete, toggle) ends with the error that
\* save_data raised, never with "ok".
SaveFailurePropagates ==
    [][\A selected_habit_id \in KnownIds, name \in DialogNames,
          desc \in DialogDescriptions :
          (\/ SaveNewHabit(name, desc, TRUE)
           \/ SaveEditHabit(selected_habit_id, name, desc, TRUE)
           \/ DeleteHabit(selected_habit_id, TRUE)
           \/ ToggleTodayCompletion(selected_habit_id, TRUE))
          => outcome' = "OSError"]_vars

\* C18 witness: the running application added a habit, the save failed, and
\* the file still holds the snapshot without that habit.
SaveFailureWitness ==
    /\ app = "running"
    /\ last.op = "add_habit"
    /\ outcome = "OSError"
    /\ Len(habits) = 2
    /\ file.kind = "json"
    /\ Len(file.data.habits) = 1

\* the calls of the manager the user actions of the application make
UserActionOps ==
    {"add_habit", "update_habit", "remove_habit", "mark_completed",
     "unmark_completed"}

\* C21: in the running application, after a user action (add, edit, delete,
\* toggle of today's check-in) that completed without a save error, the file
\* holds a snapshot whose habits are the habits in memory (same habits, order,
\* fields and completion dates), and loading it rebuilds that collection.
PersistedEqualsMemory ==
    (app = "running" /\ last.op \in UserActionOps /\ outcome = "ok") =>
        /\ file.kind = "json"
        /\ file.data.habits = [i \in DOMAIN habits |-> HabitToDict(habits[i])]
        /\ LET r == LoadData(file, today)
               m == FromDictResult(r.data, uuid_count, today)
           IN r.raised = None /\ ~m.raised /\ m.habits = habits

\* C21 witness: the running application marked the second of two habits
\* completed today and saved, and the file holds both habits with the mark.
PersistedWitness ==
    /\ app = "running"
    /\ last.op = "mark_completed"
    /\ last.idx = 2
    /\ outcome = "ok"
    /\ Len(habits) = 2
    /\ IsCompletedToday(habits[2], today)
    /\ habits[1].id = 101
    /\ file.kind = "json"
    /\ Len(file.data.habits) = 2
    /\ file.data.habits[2].completion_dates = <<IsoFormat(today)>>

====
